---- MODULE Spec2Model ----
(***************************************************************************)
(* Model of the avro helper module (src/src/avro_validation.rs):           *)
(*   fingerprint_raw_schema, fingerprint_raw_schema_list,                  *)
(*   translate_schema, translate_schemas.                                  *)
(*                                                                         *)
(* A text (&str) is a sequence of lexemes; a byte vector (Vec<u8>) is a    *)
(* sequence of lexemes that may also hold bytes that are not UTF-8.  A     *)
(* string value (a JSON string, a name) is a sequence of segments, so that *)
(* a dotted full name "ns.A" is <<"ns", ".", "A">> and can be split.       *)
(***************************************************************************)
EXTENDS Integers, Sequences, FiniteSets, TLC

\* ---------------------------------------------------------------- lexemes
P(c)   == [k |-> "punct", v |-> <<c>>]
Str(s) == [k |-> "str",   v |-> s]
W(w)   == [k |-> "word",  v |-> <<w>>]
WS     == [k |-> "ws",    v |-> <<" ">>]

\* bytes: the UTF-8 encoding of a lexeme, or a byte that occurs in no UTF-8
\* encoding (0xFF)
Utf8(lexeme) == [enc |-> "utf8", lex |-> lexeme]
BadByte == [enc |-> "invalid", lex |-> W("0xFF")]

\* str::as_bytes().to_vec()
as_bytes(text) == [i \in 1..Len(text) |-> Utf8(text[i])]

\* str::from_utf8: the text, or nothing when some byte is not UTF-8
from_utf8(bytes) ==
  IF \A i \in 1..Len(bytes) : bytes[i].enc = "utf8"
  THEN <<[i \in 1..Len(bytes) |-> bytes[i].lex]>>
  ELSE <<>>

LB == P("{")
RB == P("}")
LS == P("[")
RS == P("]")
COLON == P(":")
COMMA == P(",")
\* a string literal made of one segment
Q(s) == Str(<<s>>)

\* ---------------------------------------------------------------- JSON values
JStr(s) == [t |-> "str", s |-> s,    a |-> <<>>, m |-> <<>>]
JLit(w) == [t |-> "lit", s |-> w,    a |-> <<>>, m |-> <<>>]
JArr(a) == [t |-> "arr", s |-> <<>>, a |-> a,    m |-> <<>>]
JObj(m) == [t |-> "obj", s |-> <<>>, a |-> <<>>, m |-> m]

JsonLiterals == {<<"true">>, <<"false">>, <<"null">>, <<"1">>}

\* Map::get and Map::len on an object kept as a member list: a repeated key
\* holds the value inserted last
RECURSIVE Get(_, _)
Get(m, key) ==
  IF Len(m) = 0 THEN <<>>
  ELSE IF m[Len(m)].key = key THEN <<m[Len(m)].val>>
  ELSE Get(SubSeq(m, 1, Len(m) - 1), key)

Keys(m) == {m[i].key : i \in 1..Len(m)}
\* the string under key, when there is one
GetStr(m, key) ==
  LET g == Get(m, key) IN
  IF Len(g) = 1 /\ g[1].t = "str" THEN <<g[1].s>> ELSE <<>>

JFail == [ok |-> FALSE, val |-> JLit(<<"null">>), next |-> 0]
JOk(v, n) == [ok |-> TRUE, val |-> v, next |-> n]

RECURSIVE SkipWs(_, _)
SkipWs(toks, i) ==
  IF i <= Len(toks) /\ toks[i].k = "ws" THEN SkipWs(toks, i + 1) ELSE i

RECURSIVE ParseValue(_, _)
RECURSIVE ParseMembers(_, _, _)
RECURSIVE ParseElements(_, _, _)

\* one JSON value starting at lexeme i
ParseValue(toks, i) ==
  LET j == SkipWs(toks, i) IN
  IF j > Len(toks) THEN JFail
  ELSE LET tk == toks[j] IN
    CASE tk.k = "str" -> JOk(JStr(tk.v), j + 1)
      [] tk.k = "word" -> IF tk.v \in JsonLiterals THEN JOk(JLit(tk.v), j + 1) ELSE JFail
      [] tk = LB ->
           LET j2 == SkipWs(toks, j + 1) IN
           IF j2 <= Len(toks) /\ toks[j2] = RB
           THEN JOk(JObj(<<>>), j2 + 1)
           ELSE ParseMembers(toks, j2, <<>>)
      [] tk = LS ->
           LET j2 == SkipWs(toks, j + 1) IN
           IF j2 <= Len(toks) /\ toks[j2] = RS
           THEN JOk(JArr(<<>>), j2 + 1)
           ELSE ParseElements(toks, j2, <<>>)
      [] OTHER -> JFail

\* members of an object: "key" : value { , "key" : value } "}"
\* (an object is kept as the list of its members in textual order)
ParseMembers(toks, i, m) ==
  LET j == SkipWs(toks, i) IN
  IF j > Len(toks) \/ toks[j].k # "str" THEN JFail
  ELSE LET c == SkipWs(toks, j + 1) IN
    IF c > Len(toks) \/ toks[c] # COLON THEN JFail
    ELSE LET r == ParseValue(toks, c + 1) IN
      IF ~r.ok THEN JFail
      ELSE LET e  == SkipWs(toks, r.next)
               m2 == Append(m, [key |-> toks[j].v, val |-> r.val]) IN
        IF e > Len(toks) THEN JFail
        ELSE IF toks[e] = RB THEN JOk(JObj(m2), e + 1)
        ELSE IF toks[e] = COMMA THEN ParseMembers(toks, e + 1, m2)
        ELSE JFail

\* elements of an array: value { , value } "]"
ParseElements(toks, i, a) ==
  LET r == ParseValue(toks, i) IN
  IF ~r.ok THEN JFail
  ELSE LET e  == SkipWs(toks, r.next)
           a2 == Append(a, r.val) IN
    IF e > Len(toks) THEN JFail
    ELSE IF toks[e] = RS THEN JOk(JArr(a2), e + 1)
    ELSE IF toks[e] = COMMA THEN ParseElements(toks, e + 1, a2)
    ELSE JFail

\* serde_json::from_str: one value, then nothing but white space
from_str(toks) ==
  LET r == ParseValue(toks, 1) IN
  IF r.ok /\ SkipWs(toks, r.next) > Len(toks) THEN r ELSE JFail

\* ---------------------------------------------------------------- Schema
NoName == [name |-> <<>>, namespace |-> <<>>]
Prim(kind) == [kind |-> kind, name |-> NoName, fields |-> <<>>, variants |-> <<>>]
Null == Prim("Null")
RecordSchema(name, fields) ==
  [kind |-> "Record", name |-> name, fields |-> fields, variants |-> <<>>]
UnionSchema(variants) ==
  [kind |-> "Union", name |-> NoName, fields |-> <<>>, variants |-> variants]
ArraySchema(items) ==
  [kind |-> "Array", name |-> NoName, fields |-> <<>>, variants |-> <<items>>]
RefSchema(name) ==
  [kind |-> "Ref", name |-> name, fields |-> <<>>, variants |-> <<>>]

PrimitiveOf(s) ==
  CASE s = <<"null">>    -> <<Prim("Null")>>
    [] s = <<"boolean">> -> <<Prim("Boolean")>>
    [] s = <<"int">>     -> <<Prim("Int")>>
    [] s = <<"long">>    -> <<Prim("Long")>>
    [] s = <<"string">>  -> <<Prim("String")>>
    [] OTHER             -> <<>>

PrimitiveName(kind) ==
  CASE kind = "Null"    -> <<"null">>
    [] kind = "Boolean" -> <<"boolean">>
    [] kind = "Int"     -> <<"int">>
    [] kind = "Long"    -> <<"long">>
    [] kind = "String"  -> <<"string">>

\* position of the last "." of a string, 0 when it has none
RECURSIVE LastDot(_, _)
LastDot(s, i) ==
  IF i = 0 THEN 0 ELSE IF s[i] = "." THEN i ELSE LastDot(s, i - 1)

ContainsDot(s) == LastDot(s, Len(s)) > 0

\* Name::new / Name::parse: a dotted name carries its own namespace, else the
\* "namespace" attribute, else the enclosing namespace
NameOf(s, nsAttr, enclosing) ==
  LET d == LastDot(s, Len(s)) IN
  IF d > 0 THEN [name |-> SubSeq(s, d + 1, Len(s)), namespace |-> SubSeq(s, 1, d - 1)]
  ELSE IF Len(nsAttr) = 1 THEN [name |-> s, namespace |-> nsAttr[1]]
  ELSE [name |-> s, namespace |-> enclosing]

fullname(n) ==
  IF Len(n.namespace) = 0 THEN n.name ELSE n.namespace \o <<".">> \o n.name

IsNamed(schema) == schema.kind \in {"Ref", "Record"}

\* UnionSchema::new: no union directly inside a union, no two unnamed
\* branches of the same kind
UnionError(schemas) ==
  IF \E i \in 1..Len(schemas) : schemas[i].kind = "Union" THEN <<"GetNestedUnion">>
  ELSE IF \E i, j \in 1..Len(schemas) :
            i < j /\ ~IsNamed(schemas[j]) /\ schemas[i].kind = schemas[j].kind
       THEN <<"GetUnionDuplicate">>
  ELSE <<>>

PFail(err) == [ok |-> FALSE, schema |-> Null, names |-> {}, err |-> err]
POk(schema, names) == [ok |-> TRUE, schema |-> schema, names |-> names, err |-> ""]

RECURSIVE parse(_, _, _)
RECURSIVE parse_complex(_, _, _)
RECURSIVE parse_record(_, _, _)
RECURSIVE parse_union(_, _, _, _, _)
RECURSIVE parse_fields(_, _, _, _, _)

\* a type given by name: a primitive, or a reference to a named type that
\* is already defined in this document
parse_known_schema(s, enclosing, names) ==
  IF Len(PrimitiveOf(s)) = 1 THEN POk(PrimitiveOf(s)[1], names)
  ELSE LET n == NameOf(s, <<>>, enclosing) IN
    IF fullname(n) \in names THEN POk(RefSchema(n), names)
    ELSE PFail("ParsePrimitive")

parse(value, enclosing, names) ==
  CASE value.t = "str" -> parse_known_schema(value.s, enclosing, names)
    [] value.t = "obj" -> parse_complex(value.m, enclosing, names)
    [] value.t = "arr" -> parse_union(value.a, 1, enclosing, names, <<>>)
    [] OTHER -> PFail("ParseSchemaFromValidJson")

parse_complex(complex, enclosing, names) ==
  LET ty == Get(complex, <<"type">>) IN
  IF Len(ty) = 0 THEN PFail("GetComplexTypeField")
  ELSE CASE ty[1].t = "str" ->
              IF ty[1].s = <<"record">> THEN parse_record(complex, enclosing, names)
              ELSE IF ty[1].s = <<"array">> THEN
                LET items == Get(complex, <<"items">>) IN
                IF Len(items) = 0 THEN PFail("GetArrayItemsField")
                ELSE LET r == parse(items[1], enclosing, names) IN
                  IF r.ok THEN POk(ArraySchema(r.schema), r.names) ELSE r
              ELSE parse_known_schema(ty[1].s, enclosing, names)
         [] ty[1].t = "obj" -> parse_complex(ty[1].m, enclosing, names)
         [] ty[1].t = "arr" -> parse_union(ty[1].a, 1, enclosing, names, <<>>)
         [] OTHER -> PFail("GetComplexType")

parse_record(complex, enclosing, names) ==
  LET nm == GetStr(complex, <<"name">>)
      fs == Get(complex, <<"fields">>) IN
  IF Len(nm) = 0 THEN PFail("GetNameField")
  ELSE LET n == NameOf(nm[1], GetStr(complex, <<"namespace">>), enclosing) IN
    IF fullname(n) \in names THEN PFail("NameCollision")
    ELSE IF Len(fs) = 0 \/ fs[1].t # "arr" THEN PFail("GetRecordFieldsJson")
    ELSE LET r == parse_fields(fs[1].a, 1, n.namespace, names \cup {fullname(n)}, <<>>) IN
      IF r.ok THEN POk(RecordSchema(n, r.schema.fields), r.names) ELSE r

\* the fields of a record, in declared order; acc holds the fields parsed so far
parse_fields(arr, i, enclosing, names, acc) ==
  IF i > Len(arr) THEN POk(RecordSchema(NoName, acc), names)
  ELSE IF arr[i].t # "obj" THEN PFail("GetRecordFieldsJson")
  ELSE LET nm == GetStr(arr[i].m, <<"name">>) IN
    IF Len(nm) = 0 THEN PFail("GetNameFieldFromRecord")
    ELSE IF \E j \in 1..Len(acc) : acc[j].name = nm[1] THEN PFail("FieldNameDuplicate")
    ELSE LET r == parse_complex(arr[i].m, enclosing, names) IN
      IF ~r.ok THEN r
      ELSE parse_fields(arr, i + 1, enclosing, r.names,
             Append(acc, [name |-> nm[1], schema |-> r.schema,
                          default |-> Get(arr[i].m, <<"default">>)]))

\* the branches of a union, in declared order
parse_union(arr, i, enclosing, names, acc) ==
  IF i > Len(arr)
  THEN IF Len(UnionError(acc)) = 1 THEN PFail(UnionError(acc)[1])
       ELSE POk(UnionSchema(acc), names)
  ELSE LET r == parse(arr[i], enclosing, names) IN
    IF ~r.ok THEN r ELSE parse_union(arr, i + 1, enclosing, r.names, Append(acc, r.schema))

\* Schema::parse_str: JSON text to Schema, or an error
parse_str(text) ==
  LET j == from_str(text) IN
  IF ~j.ok THEN PFail("ParseSchemaJson") ELSE parse(j.val, <<>>, {})

\* ---------------------------------------------------------------- canonical form
Member(key, val) == [key |-> <<key>>, val |-> val]

RECURSIVE Serialize(_)
RECURSIVE SerializeAll(_, _)
RECURSIVE SerializeFields(_, _)

\* serde serialization of a Schema to a JSON value
Serialize(schema) ==
  CASE schema.kind = "Ref"    -> JStr(fullname(schema.name))
    [] schema.kind = "Union"  -> JArr(SerializeAll(schema.variants, 1))
    [] schema.kind = "Array"  ->
         JObj(<<Member("type", JStr(<<"array">>)),
                Member("items", Serialize(schema.variants[1]))>>)
    [] schema.kind = "Record" ->
         JObj(<<Member("type", JStr(<<"record">>))>>
              \o (IF Len(schema.name.namespace) = 0 THEN <<>>
                  ELSE <<Member("namespace", JStr(schema.name.namespace))>>)
              \o <<Member("name", JStr(schema.name.name)),
                   Member("fields", JArr(SerializeFields(schema.fields, 1)))>>)
    [] OTHER -> JStr(PrimitiveName(schema.kind))

SerializeAll(schemas, i) ==
  IF i > Len(schemas) THEN <<>>
  ELSE <<Serialize(schemas[i])>> \o SerializeAll(schemas, i + 1)

SerializeFields(fields, i) ==
  IF i > Len(fields) THEN <<>>
  ELSE <<JObj(<<Member("name", JStr(fields[i].name))>>
              \o (IF Len(fields[i].default) = 0 THEN <<>>
                  ELSE <<Member("default", fields[i].default[1])>>)
              \o <<Member("type", Serialize(fields[i].schema))>>)>>
       \o SerializeFields(fields, i + 1)

\* the attributes the canonical form keeps, in its order ([STRIP], [ORDER])
field_ordering == << <<"name">>, <<"type">>, <<"fields">>, <<"symbols">>,
                     <<"items">>, <<"values">>, <<"size">> >>

pcf_string(s) == <<Str(s)>>

RECURSIVE parsing_canonical_form(_)
RECURSIVE pcf_array(_, _)
RECURSIVE pcf_members(_, _, _)

parsing_canonical_form(value) ==
  CASE value.t = "obj" ->
         \* [PRIMITIVE]: {"type": "int"} is written "int"
         IF Keys(value.m) = {<<"type">>} /\ Len(GetStr(value.m, <<"type">>)) = 1
         THEN pcf_string(GetStr(value.m, <<"type">>)[1])
         ELSE <<LB>> \o pcf_members(value.m, 1, TRUE) \o <<RB>>
    [] value.t = "arr" -> <<LS>> \o pcf_array(value.a, 1) \o <<RS>>
    [] value.t = "str" -> pcf_string(value.s)
    [] OTHER -> <<[k |-> "word", v |-> value.s]>>

pcf_array(arr, i) ==
  IF i > Len(arr) THEN <<>>
  ELSE (IF i > 1 THEN <<COMMA>> ELSE <<>>)
       \o parsing_canonical_form(arr[i]) \o pcf_array(arr, i + 1)

\* the kept members of an object, in canonical order, joined by ","
pcf_members(m, pos, first) ==
  IF pos > Len(field_ordering) THEN <<>>
  ELSE LET key == field_ordering[pos]
           v   == Get(m, key) IN
    IF Len(v) = 0 THEN pcf_members(m, pos + 1, first)
    ELSE (IF first THEN <<>> ELSE <<COMMA>>)
         \o pcf_string(key) \o <<COLON>>
         \o (IF key = <<"name">>
             \* [FULLNAMES]: a named type's name is written with its namespace
             THEN LET ns == GetStr(m, <<"namespace">>) IN
                  IF Len(ns) = 1 /\ GetStr(m, <<"type">>) = <<<<"record">>>>
                     /\ ~ContainsDot(v[1].s)
                  THEN pcf_string(ns[1] \o <<".">> \o v[1].s)
                  ELSE pcf_string(v[1].s)
             ELSE parsing_canonical_form(v[1]))
         \o pcf_members(m, pos + 1, FALSE)

\* Schema::canonical_form: the Parsing Canonical Form, as text
canonical_form(schema) == parsing_canonical_form(Serialize(schema))

\* ---------------------------------------------------------------- texts
KV(key, val) == <<Q(key), COLON>> \o val
Obj(ms) == <<LB>> \o ms \o <<RB>>
Field(name, ty) == Obj(KV("name", <<Q(name)>>) \o <<COMMA>> \o KV("type", ty))

\* the schema of the documentation examples (line 51)
UserText ==
  Obj(KV("type", <<Q("record")>>) \o <<COMMA, WS>> \o KV("name", <<Q("User")>>)
      \o <<COMMA, WS>>
      \o KV("fields", <<LS>> \o Field("name", <<Q("string")>>) \o <<COMMA, WS>>
                       \o Field("favorite_number", <<Q("int")>>) \o <<RS>>))

NullText == <<Q("null")>>
IntText == <<Q("int")>>
ObjIntText == Obj(KV("type", <<WS, Q("int")>>))
UnknownRefText == <<Q("Foo")>>
NotJsonText == <<W("not"), WS, W("json"), WS, W("at"), WS, W("all")>>
TrailingText == <<Q("int"), WS, Q("int")>>
EmptyRecord(name) ==
  Obj(KV("type", <<Q("record")>>) \o <<COMMA>> \o KV("name", <<Q(name)>>)
      \o <<COMMA>> \o KV("fields", <<LS, RS>>))
\* two anonymous int branches
DupUnionText == <<LS, Q("int"), COMMA, Q("int"), RS>>
DupUnionNullText == <<LS, Q("null"), COMMA, Q("int"), COMMA, WS, Q("int"), RS>>
\* int and a named record
UnionRecText == <<LS, Q("int"), COMMA>> \o EmptyRecord("R") \o <<RS>>
NestedUnionText == <<LS, Q("int"), COMMA, LS, Q("null"), RS, RS>>
\* a record in a namespace, with a documented field that has a default and
\* refers back to the record
NsText ==
  Obj(KV("namespace", <<Q("ns")>>) \o <<COMMA>> \o KV("doc", <<Q("a list")>>)
      \o <<COMMA>> \o KV("fields",
           <<LS>> \o Obj(KV("default", <<W("null")>>) \o <<COMMA>>
                         \o KV("type", <<LS, Q("null"), COMMA, Q("A"), RS>>)
                         \o <<COMMA>> \o KV("name", <<Q("next")>>))
           \o <<RS>>)
      \o <<COMMA>> \o KV("name", <<Q("A")>>) \o <<COMMA>> \o KV("type", <<Q("record")>>))
\* the same name defined twice
DupNameText == <<LS>> \o EmptyRecord("R") \o <<COMMA>> \o EmptyRecord("R") \o <<RS>>
ArrayText ==
  Obj(KV("type", <<Q("array")>>) \o <<COMMA>> \o KV("items", Obj(KV("type", <<Q("long")>>))))

ValidTexts == {UserText, NullText, IntText, ObjIntText, UnionRecText, NsText, ArrayText}
InvalidTexts == {UnknownRefText, NotJsonText, TrailingText, DupUnionText,
                 DupUnionNullText, NestedUnionText, DupNameText}
Texts == ValidTexts \cup InvalidTexts

\* ---------------------------------------------------------------- bounds
\* longest list handed to a batch call
MaxLen == 3

\* the raw schemas and the byte vectors the batch calls are fed with
BatchTexts == {UserText, NullText, ObjIntText, DupUnionText, UnionRecText, NotJsonText}
NonUtf8Bytes == <<Utf8(Q("int")), BadByte>>
ByteInputs == {as_bytes(t) : t \in Texts}
              \cup {as_bytes(canonical_form(parse_str(t).schema)) : t \in ValidTexts}
              \cup {NonUtf8Bytes}
BatchBytes == {as_bytes(NullText), as_bytes(ObjIntText), as_bytes(UnionRecText),
               as_bytes(DupUnionText), NonUtf8Bytes}

RECURSIVE ListsOf(_, _)
ListsOf(S, n) ==
  IF n = 0 THEN {<<>>}
  ELSE ListsOf(S, n - 1) \cup {Append(l, x) : l \in ListsOf(S, n - 1), x \in S}

\* ---------------------------------------------------------------- the functions
Ok(v) == [tag |-> "Ok", val |-> v]
Err(e) == [tag |-> "Err", err |-> e]
InvalidSchema(msg) == [variant |-> "InvalidSchema", msg |-> msg]

\* fingerprint_raw_schema with the parse error swallowed, as the list variant does
fingerprint_raw_schema_swallow(raw) ==
  LET schema_result == parse_str(raw) IN
  IF ~schema_result.ok THEN Ok(<<Null, as_bytes(raw)>>)
  ELSE Ok(<<schema_result.schema, as_bytes(canonical_form(schema_result.schema))>>)

\* fingerprint_raw_schema returning the bytes of the raw text
fingerprint_raw_schema_raw(raw) ==
  LET schema_result == parse_str(raw) IN
  IF ~schema_result.ok THEN Err(InvalidSchema(schema_result.err))
  ELSE Ok(<<schema_result.schema, as_bytes(raw)>>)

\* fingerprint_raw_schema: parse, then the canonical form as bytes
fingerprint_raw_schema(raw) ==
  LET schema_result == parse_str(raw) IN
  IF ~schema_result.ok THEN Err(InvalidSchema(schema_result.err))
  ELSE Ok(<<schema_result.schema, as_bytes(canonical_form(schema_result.schema))>>)

\* the closure with no bytes for a failed item
fingerprint_item_nobytes(r) ==
  LET schema == fingerprint_raw_schema(r) IN
  IF schema.tag = "Ok" THEN schema.val ELSE <<Null, <<>>>>

\* the closure keeping the raw text of every item
fingerprint_item_raw(r) ==
  LET schema == fingerprint_raw_schema(r) IN
  IF schema.tag = "Ok" THEN <<schema.val[1], as_bytes(r)>> ELSE <<Null, as_bytes(r)>>

\* the closure mapped over the list by fingerprint_raw_schema_list
fingerprint_item(r) ==
  LET schema == fingerprint_raw_schema(r) IN
  IF schema.tag = "Ok" THEN schema.val ELSE <<Null, as_bytes(r)>>

\* translate_schema decoding lossily: bytes that are not UTF-8 are dropped
translate_schema_lossy(serialized) ==
  LET schema_str == SelectSeq(serialized, LAMBDA b : b.enc = "utf8")
      schema == parse_str([i \in 1..Len(schema_str) |-> schema_str[i].lex]) IN
  IF ~schema.ok THEN Err(InvalidSchema(schema.err)) ELSE Ok(schema.schema)

\* translate_schema: the bytes as UTF-8 text, parsed
translate_schema(serialized) ==
  LET schema_str == from_utf8(serialized) IN
  IF Len(schema_str) = 0 THEN Err(InvalidSchema("Utf8Error"))
  ELSE LET schema == parse_str(schema_str[1]) IN
    IF ~schema.ok THEN Err(InvalidSchema(schema.err)) ELSE Ok(schema.schema)

\* the calls translate_schema makes: parse_str only in the Ok arm of the match
translate_schema_calls(serialized) ==
  IF Len(from_utf8(serialized)) = 0 THEN <<"from_utf8">> ELSE <<"from_utf8", "parse_str">>

\* the closure with another placeholder for a failed item
translate_item_placeholder(o) ==
  LET schema == translate_schema(o) IN
  IF schema.tag = "Ok" THEN schema.val ELSE UnionSchema(<<>>)

\* the closure mapped over the list by translate_schemas
translate_item(o) ==
  LET schema == translate_schema(o) IN
  IF schema.tag = "Ok" THEN schema.val ELSE Null

\* a collect that appends the results as they complete
collect_index_completion(filled, i) == Cardinality(filled) + 1

\* par_iter().map().collect(): the place in the collected vector of the
\* result of item i
collect_index(filled, i) == i

\* ---------------------------------------------------------------- state
VARIABLES
  pc,                \* "idle", "fingerprinting", "fingerprinted", "translating", "translated", "single"
  raw_schema,        \* argument of fingerprint_raw_schema_list
  serialized_schema, \* argument of translate_schemas
  done,              \* indices of the items whose closure has run
  slots,             \* the vector being collected: <<>> or <<result>> per place
  fp_list_ret,       \* <<>> or <<value returned by fingerprint_raw_schema_list>>
  tr_list_ret,       \* <<>> or <<value returned by translate_schemas>>
  fp_arg,            \* argument of the last fingerprint_raw_schema call
  fp_ret,            \* <<>> or <<its result>>
  ts_arg,            \* argument of the last translate_schema call
  ts_ret,            \* <<>> or <<its result>>
  ts_calls,          \* the calls it made
  in_order,          \* the items of the running batch completed in index order so far
  from_fp            \* the bytes being translated are those a fingerprint call returned

vars == <<pc, raw_schema, serialized_schema, done, slots, fp_list_ret, tr_list_ret,
          fp_arg, fp_ret, ts_arg, ts_ret, ts_calls, in_order, from_fp>>

batch_vars == <<raw_schema, serialized_schema, done, slots, fp_list_ret, tr_list_ret, in_order>>
single_vars == <<fp_arg, fp_ret, ts_arg, ts_ret, ts_calls>>

Init ==
  /\ pc = "idle"
  /\ raw_schema = <<>>
  /\ serialized_schema = <<>>
  /\ done = {}
  /\ slots = <<>>
  /\ fp_list_ret = <<>>
  /\ tr_list_ret = <<>>
  /\ fp_arg = <<>>
  /\ fp_ret = <<>>
  /\ ts_arg = <<>>
  /\ ts_ret = <<>>
  /\ ts_calls = <<>>
  /\ in_order = TRUE
  /\ from_fp = FALSE

Filled(sl) == {j \in 1..Len(sl) : Len(sl[j]) = 1}

\* a caller calls fingerprint_raw_schema(raw)
CallFingerprint(raw) ==
  /\ pc = "idle"
  /\ pc' = "single"
  /\ fp_arg' = raw
  /\ fp_ret' = <<fingerprint_raw_schema(raw)>>
  /\ UNCHANGED <<batch_vars, ts_arg, ts_ret, ts_calls, from_fp>>

\* a caller calls translate_schema(bytes)
CallTranslate(bytes) ==
  /\ pc = "idle"
  /\ pc' = "single"
  /\ ts_arg' = bytes
  /\ ts_ret' = <<translate_schema(bytes)>>
  /\ ts_calls' = translate_schema_calls(bytes)
  /\ UNCHANGED <<batch_vars, fp_arg, fp_ret, from_fp>>

\* the caller hands the bytes fingerprint_raw_schema returned to translate_schema
\* (the documentation example of translate_schema)
TranslateFingerprinted ==
  /\ pc = "single"
  /\ Len(fp_ret) = 1 /\ fp_ret[1].tag = "Ok"
  /\ Len(ts_ret) = 0
  /\ ts_arg' = fp_ret[1].val[2]
  /\ ts_ret' = <<translate_schema(fp_ret[1].val[2])>>
  /\ ts_calls' = translate_schema_calls(fp_ret[1].val[2])
  /\ from_fp' = TRUE
  /\ UNCHANGED <<pc, batch_vars, fp_arg, fp_ret>>

\* fingerprint_raw_schema_list(list) starts: nothing evaluated yet
CallFingerprintList(list) ==
  /\ pc = "idle"
  /\ pc' = "fingerprinting"
  /\ raw_schema' = list
  /\ done' = {}
  /\ in_order' = TRUE
  /\ slots' = [i \in 1..Len(list) |-> <<>>]
  /\ UNCHANGED <<serialized_schema, fp_list_ret, tr_list_ret, single_vars, from_fp>>

\* a worker runs the closure on item i and stores its result
FingerprintWorker(i) ==
  /\ pc = "fingerprinting"
  /\ i \in 1..Len(raw_schema) /\ i \notin done
  /\ done' = done \cup {i}
  /\ in_order' = (in_order /\ \A j \in done : j < i)
  /\ slots' = [slots EXCEPT ![collect_index(Filled(slots), i)] = <<fingerprint_item(raw_schema[i])>>]
  /\ UNCHANGED <<pc, raw_schema, serialized_schema, fp_list_ret, tr_list_ret, single_vars, from_fp>>

\* every item is evaluated: the pairs are unzipped into the two vectors and
\* the call returns Ok
FingerprintCollect ==
  /\ pc = "fingerprinting"
  /\ done = 1..Len(raw_schema)
  /\ pc' = "fingerprinted"
  /\ fp_list_ret' = <<Ok(<<[i \in 1..Len(slots) |-> slots[i][1][1]],
                           [i \in 1..Len(slots) |-> slots[i][1][2]]>>)>>
  /\ UNCHANGED <<raw_schema, serialized_schema, done, slots, tr_list_ret, single_vars, in_order, from_fp>>

\* translate_schemas(list) starts
CallTranslateSchemas(list) ==
  /\ pc = "idle"
  /\ pc' = "translating"
  /\ serialized_schema' = list
  /\ done' = {}
  /\ in_order' = TRUE
  /\ slots' = [i \in 1..Len(list) |-> <<>>]
  /\ UNCHANGED <<raw_schema, fp_list_ret, tr_list_ret, single_vars, from_fp>>

\* the caller hands the byte vectors fingerprint_raw_schema_list returned to
\* translate_schemas
TranslateFingerprintedList ==
  /\ pc = "fingerprinted"
  /\ pc' = "translating"
  /\ serialized_schema' = fp_list_ret[1].val[2]
  /\ done' = {}
  /\ in_order' = TRUE
  /\ slots' = [i \in 1..Len(fp_list_ret[1].val[2]) |-> <<>>]
  /\ from_fp' = TRUE
  /\ UNCHANGED <<raw_schema, fp_list_ret, tr_list_ret, single_vars>>

TranslateWorker(i) ==
  /\ pc = "translating"
  /\ i \in 1..Len(serialized_schema) /\ i \notin done
  /\ done' = done \cup {i}
  /\ in_order' = (in_order /\ \A j \in done : j < i)
  /\ slots' = [slots EXCEPT ![collect_index(Filled(slots), i)] = <<translate_item(serialized_schema[i])>>]
  /\ UNCHANGED <<pc, raw_schema, serialized_schema, fp_list_ret, tr_list_ret, single_vars, from_fp>>

TranslateCollect ==
  /\ pc = "translating"
  /\ done = 1..Len(serialized_schema)
  /\ pc' = "translated"
  /\ tr_list_ret' = <<Ok([i \in 1..Len(slots) |-> slots[i][1]])>>
  /\ UNCHANGED <<raw_schema, serialized_schema, done, slots, fp_list_ret, single_vars, in_order, from_fp>>

\* the caller is done with the results
Return ==
  /\ pc \in {"single", "fingerprinted", "translated"}
  /\ pc' = "idle"
  /\ raw_schema' = <<>>
  /\ serialized_schema' = <<>>
  /\ done' = {}
  /\ slots' = <<>>
  /\ fp_list_ret' = <<>>
  /\ tr_list_ret' = <<>>
  /\ fp_arg' = <<>>
  /\ fp_ret' = <<>>
  /\ ts_arg' = <<>>
  /\ ts_ret' = <<>>
  /\ ts_calls' = <<>>
  /\ in_order' = TRUE
  /\ from_fp' = FALSE

Next ==
  \/ \E raw \in Texts : CallFingerprint(raw)
  \/ \E bytes \in ByteInputs : CallTranslate(bytes)
  \/ TranslateFingerprinted
  \/ \E list \in ListsOf(BatchTexts, MaxLen) : CallFingerprintList(list)
  \/ \E i \in 1..MaxLen : FingerprintWorker(i)
  \/ FingerprintCollect
  \/ \E list \in ListsOf(BatchBytes, MaxLen) : CallTranslateSchemas(list)
  \/ TranslateFingerprintedList
  \/ \E i \in 1..MaxLen : TranslateWorker(i)
  \/ TranslateCollect
  \/ Return

Spec == Init /\ [][Next]_vars

\* ---------------------------------------------------------------- properties
Failed(raw) == ~parse_str(raw).ok
FpReturned == Len(fp_list_ret) = 1
TrReturned == Len(tr_list_ret) = 1
FpSchemas == fp_list_ret[1].val[1]
FpBytes == fp_list_ret[1].val[2]
TrSchemas == tr_list_ret[1].val

\* C1: fingerprint_raw_schema_list returns as many schemas and as many byte
\* vectors as the list has items, and place i of both holds what the closure
\* computes from item i, whatever the order in which the items completed.
C1_OrderAndLength ==
  FpReturned =>
    /\ Len(FpSchemas) = Len(raw_schema)
    /\ Len(FpBytes) = Len(raw_schema)
    /\ \A i \in 1..Len(raw_schema) :
         <<FpSchemas[i], FpBytes[i]>> = fingerprint_item(raw_schema[i])

\* a full list of pairwise different results, completed out of index order
C1_Witness ==
  /\ pc = "fingerprinted"
  /\ ~in_order
  /\ Len(raw_schema) = MaxLen
  /\ \A i, j \in 1..Len(raw_schema) : i # j => FpBytes[i] # FpBytes[j]

\* C2: fingerprint_raw_schema_list always returns Ok, and where
\* fingerprint_raw_schema fails on item i, place i holds Null and the bytes of
\* the raw text of item i.
C2_NeverFails ==
  FpReturned =>
    /\ fp_list_ret[1].tag = "Ok"
    /\ \A i \in 1..Len(raw_schema) :
         fingerprint_raw_schema(raw_schema[i]).tag = "Err" =>
           /\ FpSchemas[i] = Null
           /\ FpBytes[i] = as_bytes(raw_schema[i])

\* the batch whose only item is the text: not json at all
C2_Witness ==
  /\ pc = "fingerprinted"
  /\ raw_schema = <<NotJsonText>>
  /\ fp_list_ret = <<Ok(<< <<Null>>, <<as_bytes(NotJsonText)>> >>)>>

ExactlyOneFailed(list) ==
  Cardinality({i \in 1..Len(list) : Failed(list[i])}) = 1

\* C3: in a batch with exactly one malformed item, every valid item's place
\* holds the schema and the canonical bytes fingerprint_raw_schema returns for
\* that item alone, and the call returns Ok.
C3_FaultIsolation ==
  (FpReturned /\ ExactlyOneFailed(raw_schema)) =>
    /\ fp_list_ret[1].tag = "Ok"
    /\ Len(FpSchemas) = Len(raw_schema) /\ Len(FpBytes) = Len(raw_schema)
    /\ \A i \in 1..Len(raw_schema) :
         ~Failed(raw_schema[i]) =>
           Ok(<<FpSchemas[i], FpBytes[i]>>) = fingerprint_raw_schema(raw_schema[i])

\* a malformed item between two different valid items whose canonical bytes
\* differ from their raw text, the malformed one completed first
C3_Witness ==
  /\ pc = "fingerprinted"
  /\ Len(raw_schema) = 3
  /\ Failed(raw_schema[2]) /\ ~Failed(raw_schema[1]) /\ ~Failed(raw_schema[3])
  /\ raw_schema[1] # raw_schema[3]
  /\ FpBytes[1] # as_bytes(raw_schema[1]) /\ FpBytes[3] # as_bytes(raw_schema[3])
  /\ FpSchemas[2] = Null
  /\ ~in_order

\* C4: place i of the result of a batch call holds Null if and only if item i
\* failed validation.
C4_NullIffFailed ==
  /\ FpReturned =>
       \A i \in 1..Len(raw_schema) :
         (FpSchemas[i] = Null) <=> (fingerprint_raw_schema(raw_schema[i]).tag = "Err")
  /\ TrReturned =>
       \A i \in 1..Len(serialized_schema) :
         (TrSchemas[i] = Null) <=> (translate_schema(serialized_schema[i]).tag = "Err")

\* C5: translate_schemas always returns Ok with one schema per byte vector:
\* the parsed schema where the bytes are UTF-8 and the text parses, Null
\* otherwise, whatever the order in which the items completed.
C5_TranslateNeverFails ==
  TrReturned =>
    /\ tr_list_ret[1].tag = "Ok"
    /\ Len(TrSchemas) = Len(serialized_schema)
    /\ \A i \in 1..Len(serialized_schema) :
         LET r == translate_schema(serialized_schema[i]) IN
         TrSchemas[i] = IF r.tag = "Ok" THEN r.val ELSE Null

\* a list with bytes that are not UTF-8, an unparsable text and a valid one,
\* completed out of index order
C5_Witness ==
  /\ pc = "translated"
  /\ ~from_fp
  /\ ~in_order
  /\ \E i, j, k \in 1..Len(serialized_schema) :
       /\ from_utf8(serialized_schema[i]) = <<>> /\ TrSchemas[i] = Null
       /\ from_utf8(serialized_schema[j]) # <<>>
       /\ Failed(from_utf8(serialized_schema[j])[1]) /\ TrSchemas[j] = Null
       /\ TrSchemas[k].kind = "Union"

\* C6: fingerprint_raw_schema returns the parsed schema with the bytes of its
\* canonical form when the text parses, and the InvalidSchema error, with no
\* schema and no bytes, when it does not.
C6_ParseThenCanonicalize ==
  Len(fp_ret) = 1 =>
    LET p == parse_str(fp_arg) IN
    IF p.ok
    THEN fp_ret[1] = Ok(<<p.schema, as_bytes(canonical_form(p.schema))>>)
    ELSE fp_ret[1] = Err(InvalidSchema(p.err))

\* a text rejected for an unknown type name
C6_Witness ==
  /\ Len(fp_ret) = 1
  /\ fp_arg = UnknownRefText
  /\ fp_ret[1] = Err(InvalidSchema("ParsePrimitive"))

\* C7: translate_schema fails with InvalidSchema when the bytes are not UTF-8,
\* without calling the parser, and when the decoded text does not parse; it
\* returns a schema only when both succeed, and the schema is the parse of the
\* decoded text.
C7_TranslateSchema ==
  Len(ts_ret) = 1 =>
    LET text == from_utf8(ts_arg) IN
    /\ Len(text) = 0 =>
         /\ ts_ret[1].tag = "Err" /\ ts_ret[1].err.variant = "InvalidSchema"
         /\ \A c \in 1..Len(ts_calls) : ts_calls[c] # "parse_str"
    /\ (Len(text) = 1 /\ Failed(text[1])) =>
         ts_ret[1].tag = "Err" /\ ts_ret[1].err.variant = "InvalidSchema"
    /\ ts_ret[1].tag = "Ok" =>
         /\ Len(text) = 1
         /\ parse_str(text[1]).ok
         /\ ts_ret[1].val = parse_str(text[1]).schema

\* bytes that are not UTF-8 although their UTF-8 part is a valid schema text
C7_Witness ==
  /\ Len(ts_ret) = 1
  /\ ts_arg = NonUtf8Bytes
  /\ ts_ret[1].tag = "Err"
  /\ ts_calls = <<"from_utf8">>
  /\ ~Failed(<<Q("int")>>)

\* C8: translating the bytes fingerprint_raw_schema returned succeeds, and the
\* canonical form of the schema it yields is those bytes again.
C8_IdempotentCanonicalForm ==
  (pc = "single" /\ from_fp /\ Len(ts_ret) = 1) =>
    /\ ts_ret[1].tag = "Ok"
    /\ as_bytes(canonical_form(ts_ret[1].val)) = fp_ret[1].val[2]

\* a round trip that loses a default and starts from a text that is not in
\* canonical form
C8_Witness ==
  /\ pc = "single" /\ from_fp /\ Len(ts_ret) = 1
  /\ ts_ret[1].tag = "Ok"
  /\ ts_ret[1].val # fp_ret[1].val[1]
  /\ fp_ret[1].val[2] # as_bytes(fp_arg)

\* the text is a JSON array with two "int" elements
TwoIntBranches(text) ==
  LET j == from_str(text) IN
  /\ j.ok /\ j.val.t = "arr"
  /\ \E a, b \in 1..Len(j.val.a) :
       a < b /\ j.val.a[a] = JStr(<<"int">>) /\ j.val.a[b] = JStr(<<"int">>)

\* C9: a union with two int branches is rejected with InvalidSchema and the
\* union of int and a named record is accepted; in a batch the first becomes
\* the Null placeholder with its raw bytes and the second a union with its
\* canonical bytes.
C9_DuplicateUnionBranch ==
  /\ Len(fp_ret) = 1 =>
       /\ TwoIntBranches(fp_arg) =>
            fp_ret[1].tag = "Err" /\ fp_ret[1].err.variant = "InvalidSchema"
       /\ fp_arg = UnionRecText =>
            fp_ret[1].tag = "Ok" /\ fp_ret[1].val[1].kind = "Union"
  /\ FpReturned =>
       \A i \in 1..Len(raw_schema) :
         /\ TwoIntBranches(raw_schema[i]) =>
              FpSchemas[i] = Null /\ FpBytes[i] = as_bytes(raw_schema[i])
         /\ raw_schema[i] = UnionRecText =>
              /\ FpSchemas[i].kind = "Union"
              /\ FpBytes[i] = as_bytes(canonical_form(FpSchemas[i]))

\* a batch holding both unions
C9_Witness ==
  /\ pc = "fingerprinted"
  /\ \E i, j \in 1..Len(raw_schema) :
       /\ raw_schema[i] = DupUnionText /\ FpSchemas[i] = Null
       /\ raw_schema[j] = UnionRecText
       /\ FpSchemas[j].variants[1].kind = "Int"
       /\ FpSchemas[j].variants[2].kind = "Record"

\* a single call rejecting a union with two int branches after a null branch
C9_WitnessSingle ==
  /\ Len(fp_ret) = 1
  /\ fp_arg = DupUnionNullText
  /\ fp_ret[1] = Err(InvalidSchema("GetUnionDuplicate"))

\* C10: translate_schemas on the byte vectors fingerprint_raw_schema_list
\* returned yields one schema per item: Null where the item had failed, and
\* where it was valid a schema whose canonical form is the bytes at that place.
C10_PipelineStable ==
  (TrReturned /\ from_fp) =>
    /\ Len(TrSchemas) = Len(raw_schema)
    /\ \A i \in 1..Len(raw_schema) :
         IF Failed(raw_schema[i])
         THEN TrSchemas[i] = Null
         ELSE as_bytes(canonical_form(TrSchemas[i])) = FpBytes[i]

\* a pipeline over a failed item and a valid record
C10_Witness ==
  /\ pc = "translated" /\ from_fp
  /\ \E i, j \in 1..Len(raw_schema) :
       /\ Failed(raw_schema[i]) /\ TrSchemas[i] = Null
       /\ ~Failed(raw_schema[j]) /\ TrSchemas[j].kind = "Record"

====
